---- MODULE Spec2Model ----
(***************************************************************************)
(* Model of fastingest's ignore-rule engine (src/fastingest/ignore.py) and *)
(* of the directory walk that consumes it (src/fastingest/core.py).        *)
(*                                                                         *)
(* Text is modelled character by character: a Python str is a sequence of  *)
(* one-character strings.  A path is modelled in resolved form, as the     *)
(* sequence of its segments below the filesystem root (<<>> is "/"); the   *)
(* modelled filesystem has no symbolic links, so Path.resolve() leaves an  *)
(* absolute path as it is.                                                 *)
(***************************************************************************)
EXTENDS Naturals, Sequences, FiniteSets

\* ------------------------------------------------------------------ text

Last(s) == s[Len(s)]

DropFirst(s, n) == SubSeq(s, n + 1, Len(s))

\* str.startswith / str.endswith
StartsWith(s, p) == Len(s) >= Len(p) /\ SubSeq(s, 1, Len(p)) = p

EndsWith(s, p) == Len(s) >= Len(p) /\ SubSeq(s, Len(s) - Len(p) + 1, Len(s)) = p

\* c in s
HasChar(s, c) == \E i \in 1..Len(s) : s[i] = c

IsSpace(c) == c = " "

RECURSIVE LStrip(_)
LStrip(s) == IF s # <<>> /\ IsSpace(s[1]) THEN LStrip(Tail(s)) ELSE s

RECURSIVE RStrip(_)
RStrip(s) == IF s # <<>> /\ IsSpace(Last(s)) THEN RStrip(SubSeq(s, 1, Len(s) - 1)) ELSE s

\* str.strip()
Strip(s) == RStrip(LStrip(s))

\* str.lstrip("/")
RECURSIVE LStripSlash(_)
LStripSlash(s) == IF s # <<>> /\ s[1] = "/" THEN LStripSlash(Tail(s)) ELSE s

LowerChar(c) ==
    CASE c = "F" -> "f"
      [] c = "A" -> "a"
      [] c = "L" -> "l"
      [] c = "S" -> "s"
      [] c = "E" -> "e"
      [] OTHER -> c

\* str.lower(), on the letters the model's inputs use
Lower(s) == [i \in 1..Len(s) |-> LowerChar(s[i])]

\* str.split(sep) for a one-character separator: never empty, keeps empty pieces
RECURSIVE Split(_, _)
Split(s, sep) ==
    IF ~HasChar(s, sep) THEN <<s>>
    ELSE LET i == CHOOSE k \in 1..Len(s) : s[k] = sep /\ \A j \in 1..(k - 1) : s[j] # sep
         IN  <<SubSeq(s, 1, i - 1)>> \o Split(DropFirst(s, i), sep)

\* sep.join(parts)
RECURSIVE Join(_, _)
Join(parts, sep) ==
    IF parts = <<>> THEN <<>>
    ELSE IF Len(parts) = 1 THEN parts[1]
    ELSE parts[1] \o sep \o Join(Tail(parts), sep)

RECURSIVE Flatten(_)
Flatten(ss) == IF ss = <<>> THEN <<>> ELSE ss[1] \o Flatten(Tail(ss))

RECURSIVE SelectSeqOf(_, _)
SelectSeqOf(s, keep) ==
    IF s = <<>> THEN <<>>
    ELSE (IF s[1] \in keep THEN <<s[1]>> ELSE <<>>) \o SelectSeqOf(Tail(s), keep)

\* ------------------------------------------------------------------ paths

IsPrefix(a, p) == Len(a) <= Len(p) /\ SubSeq(p, 1, Len(a)) = a

\* Path.parent: the root is its own parent
Parent(p) == IF p = <<>> THEN <<>> ELSE SubSeq(p, 1, Len(p) - 1)

\* p.relative_to(a) succeeds exactly when a is p or an ancestor of p
IsRelativeTo(p, a) == IsPrefix(a, p)

\* p.relative_to(a).parts
RelParts(p, a) == DropFirst(p, Len(a))

\* p.relative_to(a).as_posix(): "." for the empty relative path
RelPosix(p, a) == IF RelParts(p, a) = <<>> THEN <<".">> ELSE Join(RelParts(p, a), <<"/">>)

\* ------------------------------------------------------------------ ignore.py

\* IGNORE_FILE_NAMES, in list order
GITIGNORE == <<".", "g", "i", "t", "i", "g", "n", "o", "r", "e">>

FIIGNORE == <<".", "f", "i", "i", "g", "n", "o", "r", "e">>

IGNORE_FILE_NAMES == <<GITIGNORE, FIIGNORE>>

\* A file of the filesystem: whether it exists, whether open() and read() succeed,
\* and the lines of its content (what f.read().splitlines() yields when they do).
NoFile == [exists |-> FALSE, readable |-> FALSE, lines |-> <<>>]

Unreadable == [exists |-> TRUE, readable |-> FALSE, lines |-> <<<<"*", ".", "l", "o", "g">>>>]

TextFile(ls) == [exists |-> TRUE, readable |-> TRUE, lines |-> ls]

\* the loop of _read_lines over the raw lines
RECURSIVE KeepLines(_)
KeepLines(raw) ==
    IF raw = <<>> THEN <<>>
    ELSE LET s == Strip(raw[1])
         IN  (IF s = <<>> \/ StartsWith(s, <<"#">>) THEN <<>> ELSE <<s>>) \o KeepLines(Tail(raw))

\* _read_lines(file_path): a failing open()/read() yields []
_read_lines(file) == IF ~file.readable THEN <<>> ELSE KeepLines(file.lines)

\* _normalize_git_line without the "**/" prefix for a body that has no "/"
NormalizeNoRecursivePrefix(line) ==
    LET neg   == StartsWith(line, <<"!">>)
        body1 == IF neg THEN DropFirst(line, 1) ELSE line
        body2 == IF StartsWith(body1, <<".", "/">>) THEN DropFirst(body1, 2) ELSE body1
        body3 == LStripSlash(body2)
        body4 == IF EndsWith(body3, <<"/">>) THEN body3 \o <<"*", "*">> ELSE body3
    IN  IF neg THEN <<"!">> \o body4 ELSE body4

\* _normalize_git_line removing a single leading "/" (body[1:]) instead of all
NormalizeStripsOneSlash(line) ==
    LET neg   == StartsWith(line, <<"!">>)
        body1 == IF neg THEN DropFirst(line, 1) ELSE line
        body2 == IF StartsWith(body1, <<".", "/">>) THEN DropFirst(body1, 2) ELSE body1
        body3 == IF StartsWith(body2, <<"/">>) THEN DropFirst(body2, 1) ELSE body2
        body4 == IF EndsWith(body3, <<"/">>) THEN body3 \o <<"*", "*">> ELSE body3
        body5 == IF ~HasChar(body4, "/") THEN <<"*", "*", "/">> \o body4 ELSE body4
    IN  IF neg THEN <<"!">> \o body5 ELSE body5

\* _normalize_git_line(line)
_normalize_git_line(line) ==
    LET neg   == StartsWith(line, <<"!">>)
        body1 == IF neg THEN DropFirst(line, 1) ELSE line
        body2 == IF StartsWith(body1, <<".", "/">>) THEN DropFirst(body1, 2) ELSE body1
        body3 == LStripSlash(body2)
        body4 == IF EndsWith(body3, <<"/">>) THEN body3 \o <<"*", "*">> ELSE body3
        body5 == IF ~HasChar(body4, "/") THEN <<"*", "*", "/">> \o body4 ELSE body4
    IN  IF neg THEN <<"!">> \o body5 ELSE body5

\* os.path.commonpath of two paths: their longest common leading segments
RECURSIVE CommonPrefix(_, _)
CommonPrefix(a, b) ==
    IF a = <<>> \/ b = <<>> \/ a[1] # b[1] THEN <<>>
    ELSE <<a[1]>> \o CommonPrefix(Tail(a), Tail(b))

RECURSIVE CommonPath(_)
CommonPath(dirs) ==
    IF Len(dirs) = 1 THEN dirs[1]
    ELSE CommonPrefix(dirs[1], CommonPath(Tail(dirs)))

\* _common_anchor answering the working directory whatever the directories are
CommonAnchorIsCwd(dirs, processCwd) == processCwd

\* _common_anchor answering the directory of the last (deepest) file
CommonAnchorIsLast(dirs, processCwd) == IF dirs = <<>> THEN processCwd ELSE dirs[Len(dirs)]

\* _common_anchor(dirs); processCwd is Path.cwd()
_common_anchor(dirs, processCwd) == IF dirs = <<>> THEN processCwd ELSE CommonPath(dirs)

\* _rebase_pattern_to_anchor that loses the "!" of a negated pattern
RebaseDropsNegation(pattern, base, anchor) ==
    LET neg    == StartsWith(pattern, <<"!">>)
        body   == IF neg THEN DropFirst(pattern, 1) ELSE pattern
        prefix == IF IsRelativeTo(base, anchor)
                  THEN LET rel == RelPosix(base, anchor)
                       IN  IF rel # <<>> /\ rel # <<".">> THEN rel \o <<"/">> ELSE <<>>
                  ELSE <<>>
    IN  prefix \o body

\* _rebase_pattern_to_anchor(pattern, base, anchor)
_rebase_pattern_to_anchor(pattern, base, anchor) ==
    LET neg    == StartsWith(pattern, <<"!">>)
        body   == IF neg THEN DropFirst(pattern, 1) ELSE pattern
        prefix == IF IsRelativeTo(base, anchor)
                  THEN LET rel == RelPosix(base, anchor)
                       IN  IF rel # <<>> /\ rel # <<".">> THEN rel \o <<"/">> ELSE <<>>
                  ELSE <<>>
        rebased == prefix \o body
    IN  IF neg THEN <<"!">> \o rebased ELSE rebased

\* ------------------------------------------------------------------ pathspec
\* PathSpec.from_lines("gitwildmatch", lines) and PathSpec.match_file(rel), the
\* library calls of ignore.py lines 202 and 108, for patterns made of literal
\* characters, "*", "?" and "/" (no "[...]" classes, no backslash escapes).

\* one path segment against one pattern segment: "*" is [^/]*, "?" is [^/]
RECURSIVE GlobMatch(_, _)
GlobMatch(pat, str) ==
    IF pat = <<>> THEN str = <<>>
    ELSE IF pat[1] = "*"
         THEN GlobMatch(Tail(pat), str) \/ (str # <<>> /\ GlobMatch(pat, Tail(str)))
    ELSE IF pat[1] = "?"
         THEN str # <<>> /\ GlobMatch(Tail(pat), Tail(str))
    ELSE str # <<>> /\ str[1] = pat[1] /\ GlobMatch(Tail(pat), Tail(str))

STARSTAR == <<"*", "*">>

\* adjacent "**" segments collapse into one
RECURSIVE CollapseStars(_)
CollapseStars(segs) ==
    IF Len(segs) < 2 THEN segs
    ELSE IF segs[1] = STARSTAR /\ segs[2] = STARSTAR THEN CollapseStars(Tail(segs))
    ELSE <<segs[1]>> \o CollapseStars(Tail(segs))

\* the segments the regular expression is built from: a leading "/" anchors,
\* a pattern of one segment matches at any level, a trailing "/" becomes "**"
PatternSegs(body) ==
    LET s1 == CollapseStars(Split(body, "/"))
        s2 == IF s1[1] = <<>> THEN Tail(s1)
              ELSE IF Len(s1) = 1 \/ (Len(s1) = 2 /\ s1[2] = <<>>)
                   THEN (IF s1[1] # STARSTAR THEN <<STARSTAR>> \o s1 ELSE s1)
              ELSE s1
    IN  IF Len(s2) > 1 /\ Last(s2) = <<>>
        THEN SubSeq(s2, 1, Len(s2) - 1) \o <<STARSTAR>>
        ELSE s2

\* the regular expression, segment by segment: pattern segments ps from i on
\* against path segments fs from j on
RECURSIVE SegsMatch(_, _, _, _)
SegsMatch(ps, i, fs, j) ==
    LET end == Len(ps)
        n   == Len(fs)
    IN  IF ps[i] = STARSTAR
        THEN IF i = 1 /\ i = end THEN n >= 1                       \* [^/]+(?:/.*)?
             ELSE IF i = end THEN j <= n                             \* /.*
             ELSE \E k \in j..(n + 1) : SegsMatch(ps, i + 1, fs, k)  \* (?:.+/)? and (?:/.+)?
        ELSE /\ j <= n
             /\ IF ps[i] = <<"*">> THEN fs[j] # <<>> ELSE GlobMatch(ps[i], fs[j])
             /\ IF i = end THEN TRUE ELSE SegsMatch(ps, i + 1, fs, j + 1)  \* (?:/.*)? at the end

\* GitWildMatchPattern(line): include is False for "!" lines; an empty line or
\* "/" alone compiles to no pattern
PatternInclude(line) == ~StartsWith(line, <<"!">>)

PatternBody(line) == IF StartsWith(line, <<"!">>) THEN DropFirst(line, 1) ELSE line

PatternIsNull(line) == PatternBody(line) = <<>> \/ line = <<"/">>

\* pattern.match_file(rel) is not None
PatternMatches(line, rel) ==
    /\ ~PatternIsNull(line)
    /\ SegsMatch(PatternSegs(PatternBody(line)), 1, Split(rel, "/"), 1)

\* PathSpec.match_file(rel): the last pattern that matches decides
RECURSIVE MatchFileFrom(_, _, _)
MatchFileFrom(lines, rel, matched) ==
    IF lines = <<>> THEN matched
    ELSE MatchFileFrom(Tail(lines), rel,
                       IF PatternMatches(lines[1], rel) THEN PatternInclude(lines[1]) ELSE matched)

match_file(lines, rel) == MatchFileFrom(lines, rel, FALSE)

\* ------------------------------------------------------------------ names

PROJ == <<"p", "r", "o", "j">>

SRC == <<"s", "r", "c">>

OTHER_DIR == <<"o", "t", "h", "e", "r">>

BUILD == <<"b", "u", "i", "l", "d">>

FOO == <<"f", "o", "o">>

APP_LOG == <<"a", "p", "p", ".", "l", "o", "g">>

KEEP_LOG == <<"k", "e", "e", "p", ".", "l", "o", "g">>

OTHER_LOG == <<"o", "t", "h", "e", "r", ".", "l", "o", "g">>

ROOT == <<>>

D_PROJ == <<PROJ>>

D_SRC == <<PROJ, SRC>>

D_BUILD == <<PROJ, SRC, BUILD>>

D_OTHER == <<OTHER_DIR>>

\* raw lines of ignore files
L_LOG == <<"*", ".", "l", "o", "g">>

L_NOT_KEEP == <<"!">> \o KEEP_LOG

L_BUILD_DIR == BUILD \o <<"/">>

L_COMMENT == <<"#", " ", "c">>

L_LOG_PADDED == <<" ">> \o L_LOG \o <<" ">>

L_ROOTED_FOO == <<"/">> \o FOO

L_DOT_BUILD_DIR == <<".", "/">> \o L_BUILD_DIR

\* ------------------------------------------------------------------ state

VARIABLES
    fs,           \* the ignore files of the filesystem: path -> file
    target_dir,   \* build_composite_ignore's target_dir, resolved
    cwd,          \* its cwd, resolved (cli.py passes Path.cwd())
    g_param,      \* its g_param: <<>> is None, <<s>> is the string s
    pc,           \* "start", "built" (build returned), "walk", "done"
    has_ignore,   \* the build returned a CompositeIgnore (not None)
    all_files,    \* CompositeIgnore.all_files
    anchor,       \* CompositeIgnore.anchor
    spec,         \* CompositeIgnore.spec: the lines the PathSpec was compiled from
    cache,        \* CompositeIgnore._cache
    last_path,    \* the argument of the last direct matches() call, <<p>> or <<>>
    last_ret,     \* what that call returned
    ignore_files, \* run_ingest's diagnostic list
    stack,        \* os.walk: directories still to visit, next first
    included,     \* list_included_files: included
    excluded,     \* list_included_files: excluded
    ignored       \* paths for which "ignore and ignore.matches(p)" held in the walk

vars == <<fs, target_dir, cwd, g_param, pc, has_ignore, all_files, anchor, spec, cache,
          last_path, last_ret, ignore_files, stack, included, excluded, ignored>>

None == <<>>

Some(s) == <<s>>

\* Path.is_file() for a candidate ignore file
is_file(files, p) == p \in DOMAIN files /\ files[p].exists

\* the collectors' loops with the two names of IGNORE_FILE_NAMES tried in the
\* opposite order
RECURSIVE FilesInDirsNamesSwapped(_, _)
FilesInDirsNamesSwapped(files, dirs) ==
    IF dirs = <<>> THEN <<>>
    ELSE LET d == dirs[1]
             here == <<d \o <<IGNORE_FILE_NAMES[2]>>, d \o <<IGNORE_FILE_NAMES[1]>>>>
         IN  SelectSeq(here, LAMBDA p : is_file(files, p))
                 \o FilesInDirsNamesSwapped(files, Tail(dirs))

\* the ignore files found in the directories dirs, IGNORE_FILE_NAMES order inside
\* each directory (the nested loops of both collectors)
RECURSIVE FilesInDirs(_, _)
FilesInDirs(files, dirs) ==
    IF dirs = <<>> THEN <<>>
    ELSE LET d == dirs[1]
             here == [i \in 1..Len(IGNORE_FILE_NAMES) |-> d \o <<IGNORE_FILE_NAMES[i]>>]
         IN  SelectSeq(here, LAMBDA p : is_file(files, p)) \o FilesInDirs(files, Tail(dirs))

\* start, start/part1, ..., end
DirsAlong(start, end) ==
    [k \in 1..(Len(end) - Len(start) + 1) |-> SubSeq(end, 1, Len(start) + k - 1)]

\* end, ..., start/part1, start
DirsUpFrom(start, end) ==
    [k \in 1..(Len(end) - Len(start) + 1) |-> SubSeq(end, 1, Len(end) - k + 1)]

\* collect_ignore_files_along_path that starts at the filesystem root
AlongPathFromRoot(files, start, end) ==
    IF ~IsRelativeTo(end, start) THEN <<>>
    ELSE FilesInDirs(files, DirsAlong(ROOT, end))

\* collect_ignore_files_along_path(start, end)
collect_ignore_files_along_path(files, start, end) ==
    IF ~IsRelativeTo(end, start) THEN <<>>
    ELSE FilesInDirs(files, DirsAlong(start, end))

\* collect_ignore_files_from_ancestors without the reversal: dir_path first
FromAncestorsDeepestFirst(files, dir_path) ==
    FilesInDirs(files, DirsUpFrom(ROOT, dir_path))

\* collect_ignore_files_from_ancestors(dir_path): root first
collect_ignore_files_from_ancestors(files, dir_path) ==
    FilesInDirs(files, DirsAlong(ROOT, dir_path))

\* Path(g).resolve(): a relative path is taken from the process's directory
ParsePath(g, processCwd) ==
    LET segs == SelectSeq(Split(g, "/"), LAMBDA x : x # <<>>)
    IN  IF StartsWith(g, <<"/">>) THEN segs ELSE processCwd \o segs

FALSE_TOKEN == <<"f", "a", "l", "s", "e">>

\* the test of line 170 without lower()
IsDisabledCaseSensitive(g) == g # None /\ Strip(g[1]) = FALSE_TOKEN

\* ignore.py line 170
IsDisabled(g) == g # None /\ Lower(Strip(g[1])) = FALSE_TOKEN

\* lines 173-182 falling back to the target's ancestors when the working
\* directory's chain holds no ignore file
DiscoverFilesWithFallback(files, target, wd, g) ==
    IF g # None /\ g[1] # <<>>
    THEN collect_ignore_files_from_ancestors(files, ParsePath(g[1], wd))
    ELSE IF IsRelativeTo(target, wd) /\ collect_ignore_files_along_path(files, wd, target) # <<>>
         THEN collect_ignore_files_along_path(files, wd, target)
         ELSE collect_ignore_files_from_ancestors(files, target)

\* ignore.py lines 173-182: the files list
DiscoverFiles(files, target, wd, g) ==
    IF g # None /\ g[1] # <<>>
    THEN collect_ignore_files_from_ancestors(files, ParsePath(g[1], wd))
    ELSE IF IsRelativeTo(target, wd)
         THEN collect_ignore_files_along_path(files, wd, target)
         ELSE collect_ignore_files_from_ancestors(files, target)

\* ignore.py lines 195-198: one file's rebased lines
RebasedLinesOf(files, f, anc) ==
    LET base       == Parent(f)
        raw_lines  == _read_lines(files[f])
        norm_lines == [i \in 1..Len(raw_lines) |-> _normalize_git_line(raw_lines[i])]
    IN  [i \in 1..Len(norm_lines) |-> _rebase_pattern_to_anchor(norm_lines[i], base, anc)]

\* the loop of lines 194-199 ending at the first file that cannot be read
RECURSIVE CombinedLinesStopAtUnreadable(_, _, _)
CombinedLinesStopAtUnreadable(files, found, anc) ==
    IF found = <<>> \/ ~files[found[1]].readable THEN <<>>
    ELSE RebasedLinesOf(files, found[1], anc)
             \o CombinedLinesStopAtUnreadable(files, Tail(found), anc)

\* ignore.py lines 193-199: combined_lines
RECURSIVE CombinedLines(_, _, _)
CombinedLines(files, found, anc) ==
    IF found = <<>> THEN <<>>
    ELSE RebasedLinesOf(files, found[1], anc) \o CombinedLines(files, Tail(found), anc)

\* ignore.py line 188
BasesOf(found) == [i \in 1..Len(found) |-> Parent(found[i])]

\* ------------------------------------------------------------------ CompositeIgnore

EmptyCache == [k \in {} |-> FALSE]

\* matches() that takes a path outside the anchor by its full posix form
MatchesRetNoAnchorCheck(c, path) ==
    LET key == IF IsRelativeTo(path, anchor) THEN RelPosix(path, anchor) ELSE Join(path, <<"/">>)
    IN  IF key \in DOMAIN c THEN c[key] ELSE match_file(spec, key)

\* CompositeIgnore.matches(path) on a matcher whose cache is c: the value returned
matches_ret(c, path) ==
    IF ~IsRelativeTo(path, anchor) THEN FALSE
    ELSE LET key == RelPosix(path, anchor)
         IN  IF key \in DOMAIN c THEN c[key] ELSE match_file(spec, key)

\* matches() that stores its result under the file name instead of the
\* anchor-relative path
MatchesCacheKeyedByName(c, path) ==
    IF ~IsRelativeTo(path, anchor) THEN c
    ELSE LET key  == RelPosix(path, anchor)
             name == IF path = <<>> THEN <<".">> ELSE Last(path)
         IN  IF key \in DOMAIN c THEN c
             ELSE [k \in DOMAIN c \cup {name} |-> IF k = name THEN match_file(spec, key) ELSE c[k]]

\* ... and the cache it leaves
matches_cache(c, path) ==
    IF ~IsRelativeTo(path, anchor) THEN c
    ELSE LET key == RelPosix(path, anchor)
         IN  IF key \in DOMAIN c THEN c
             ELSE [k \in DOMAIN c \cup {key} |-> IF k = key THEN match_file(spec, key) ELSE c[k]]

\* the cache after matches() was called on each of paths in turn
RECURSIVE CacheAfter(_, _)
CacheAfter(c, paths) ==
    IF paths = <<>> THEN c ELSE CacheAfter(matches_cache(c, paths[1]), Tail(paths))

\* what the i-th of those calls returned
RetOfCall(c, paths, i) == matches_ret(CacheAfter(c, SubSeq(paths, 1, i - 1)), paths[i])

\* ------------------------------------------------------------------ core.py

\* the members of DEFAULT_PRUNE_DIRS that name a directory of the modelled tree
DEFAULT_PRUNE_DIRS == {BUILD}

\* the modelled tree: sub-directories and regular files of each directory, as listed
TreeDirs(d) ==
    CASE d = ROOT   -> <<OTHER_DIR, PROJ>>
      [] d = D_PROJ -> <<SRC>>
      [] d = D_SRC  -> <<BUILD>>
      [] OTHER      -> <<>>

TreeFiles(d) ==
    CASE d = D_PROJ  -> <<FOO, OTHER_LOG>>
      [] d = D_SRC   -> <<APP_LOG, FOO, KEEP_LOG>>
      [] d = D_BUILD -> <<<<"a">>>>
      [] d = D_OTHER -> <<FOO>>
      [] OTHER       -> <<>>

\* the files os.walk lists in d: the ignore files that exist, then the regular files
ListedFiles(files, d) ==
    SelectSeq(IGNORE_FILE_NAMES, LAMBDA n : is_file(files, d \o <<n>>)) \o TreeFiles(d)

BINARY_EXT == <<".", "p", "n", "g">>

\* is_binary_path(p): a binary suffix, or a file that cannot be opened (no file
\* of the modelled tree holds a NUL byte)
is_binary_path(files, p) ==
    \/ EndsWith(Last(p), BINARY_EXT)
    \/ (p \in DOMAIN files /\ ~files[p].readable)

\* core.py lines 83-89: the sub-directories that reach the ignore test
CandidateDirs(cur) ==
    LET ds == SelectSeq(TreeDirs(cur), LAMBDA d : d \notin DEFAULT_PRUNE_DIRS)
    IN  [i \in 1..Len(ds) |-> cur \o <<ds[i]>>]

CandidateFiles(files, cur) ==
    LET ns == ListedFiles(files, cur)
    IN  [i \in 1..Len(ns) |-> cur \o <<ns[i]>>]

\* every path matches() is called on while cur is visited, in call order
WalkCalls(files, cur) == CandidateDirs(cur) \o CandidateFiles(files, cur)

\* the ignore test of lines 87-89 left out: only files are tested, no directory is pruned
IgnoredCallsFilesOnly(files, cur) ==
    IF ~has_ignore THEN {}
    ELSE {i \in (Len(CandidateDirs(cur)) + 1)..Len(WalkCalls(files, cur)) :
              RetOfCall(cache, WalkCalls(files, cur), i)}

\* the positions of WalkCalls whose path "ignore and ignore.matches(p)" rejects
IgnoredCalls(files, cur) ==
    IF ~has_ignore THEN {}
    ELSE {i \in 1..Len(WalkCalls(files, cur)) : RetOfCall(cache, WalkCalls(files, cur), i)}

\* ------------------------------------------------------------------ bounds and inputs

\* at most this many ignore files exist in the filesystem
MaxIgnoreFiles == 2

\* direct matches() calls stop filling the cache at this many entries
MaxCache == 1

IgnoreNames == {IGNORE_FILE_NAMES[i] : i \in 1..Len(IGNORE_FILE_NAMES)}

SlotsIn(dirs) == {d \o <<n>> : d \in dirs, n \in IgnoreNames}

AllSlots == SlotsIn({ROOT, D_PROJ, D_SRC, D_OTHER})

\* where the runs over varied contents keep their ignore files
ContentSlots == {D_PROJ \o <<GITIGNORE>>, D_SRC \o <<GITIGNORE>>, D_SRC \o <<FIIGNORE>>}

\* where the runs over varied directories keep theirs
DiscoverySlots ==
    {ROOT \o <<FIIGNORE>>, D_PROJ \o <<GITIGNORE>>, D_SRC \o <<GITIGNORE>>,
     D_SRC \o <<FIIGNORE>>, D_OTHER \o <<GITIGNORE>>}

\* contents an ignore file may have
Contents ==
    { TextFile(<<L_LOG>>),
      TextFile(<<L_NOT_KEEP>>),
      TextFile(<<FOO>>),
      TextFile(<<L_BUILD_DIR>>),
      TextFile(<<L_COMMENT, <<>>, L_LOG_PADDED, L_NOT_KEEP>>),
      TextFile(<<L_ROOTED_FOO, L_DOT_BUILD_DIR>>),
      Unreadable }

\* the paths matches() is called on directly
QueryPaths ==
    { D_PROJ,
      D_PROJ \o <<OTHER_LOG>>,
      D_PROJ \o <<FOO>>,
      D_SRC \o <<KEEP_LOG>>,
      D_SRC \o <<FOO>>,
      D_OTHER \o <<FOO>> }

Present(files) == {p \in DOMAIN files : files[p].exists}

\* filesystems whose ignore files lie in slots and take their contents from menu
Filesystems(slots, menu) ==
    UNION {{[p \in AllSlots |-> IF p \in S THEN c[p] ELSE NoFile] : c \in [S -> menu]} :
           S \in {T \in SUBSET slots : Cardinality(T) <= MaxIgnoreFiles}}

G_FALSE == <<"f", "a", "l", "s", "e">>

G_FALSE_UPPER == <<"F", "A", "L", "S", "E">>

G_FALSE_PADDED == <<" ", "F", "a", "l", "s", "e", " ">>

G_SRC == <<"/">> \o PROJ \o <<"/">> \o SRC

G_OTHER == <<"/">> \o OTHER_DIR

Unbuilt ==
    /\ pc = "start"
    /\ has_ignore = FALSE
    /\ all_files = <<>>
    /\ anchor = <<>>
    /\ spec = <<>>
    /\ cache = EmptyCache
    /\ last_path = <<>>
    /\ last_ret = FALSE
    /\ ignore_files = <<>>
    /\ stack = <<>>
    /\ included = <<>>
    /\ excluded = <<>>
    /\ ignored = {}

\* runs from /proj on /proj/src over ignore files of any content
InitContents ==
    /\ fs \in Filesystems(ContentSlots, Contents)
    /\ target_dir = D_SRC
    /\ cwd = D_PROJ
    /\ g_param = None

\* runs with any target, working directory and override over ignore files
\* placed anywhere
InitDiscovery ==
    /\ fs \in Filesystems(DiscoverySlots, {TextFile(<<FOO>>)})
    /\ target_dir \in {D_PROJ, D_SRC, D_OTHER}
    /\ cwd \in {D_PROJ, D_SRC}
    /\ g_param \in {None, Some(<<>>), Some(G_FALSE), Some(G_FALSE_UPPER),
                    Some(G_FALSE_PADDED), Some(G_SRC), Some(G_OTHER)}

Init == Unbuilt /\ (InitContents \/ InitDiscovery)

\* ------------------------------------------------------------------ actions

\* build_composite_ignore(target_dir, cwd, g_param)
Build ==
    /\ pc = "start"
    /\ pc' = "built"
    /\ LET found == DiscoverFiles(fs, target_dir, cwd, g_param)
           anc   == _common_anchor(BasesOf(found), cwd)
       IN  IF IsDisabled(g_param) \/ found = <<>>
           THEN UNCHANGED <<has_ignore, all_files, anchor, spec, cache>>
           ELSE /\ has_ignore' = TRUE
                /\ all_files' = found
                /\ anchor' = anc
                /\ spec' = CombinedLines(fs, found, anc)
                /\ cache' = EmptyCache
    /\ UNCHANGED <<fs, target_dir, cwd, g_param, last_path, last_ret, ignore_files,
                   stack, included, excluded, ignored>>

\* a direct call of CompositeIgnore.matches(path)
Matches(path) ==
    /\ pc = "built"
    /\ has_ignore
    /\ Cardinality(DOMAIN matches_cache(cache, path)) <= MaxCache
    /\ cache' = matches_cache(cache, path)
    /\ last_path' = <<path>>
    /\ last_ret' = matches_ret(cache, path)
    /\ UNCHANGED <<fs, target_dir, cwd, g_param, pc, has_ignore, all_files, anchor, spec,
                   ignore_files, stack, included, excluded, ignored>>

\* run_ingest after the build (core.py lines 257-266): the diagnostic list, then
\* list_included_files(directory, [], [], ignore) starts at its root.  run_ingest
\* hands the matcher over as built, before any other caller has queried it.
StartWalk ==
    /\ pc = "built"
    /\ last_path = <<>>
    /\ pc' = "walk"
    /\ ignore_files' = IF has_ignore THEN all_files ELSE <<>>
    /\ stack' = <<target_dir>>
    /\ UNCHANGED <<fs, target_dir, cwd, g_param, has_ignore, all_files, anchor, spec, cache,
                   last_path, last_ret, included, excluded, ignored>>

\* one iteration of the os.walk loop of list_included_files (core.py lines 78-109)
WalkDir ==
    /\ pc = "walk"
    /\ stack # <<>>
    /\ LET cur   == stack[1]
           calls == WalkCalls(fs, cur)
           nd    == Len(CandidateDirs(cur))
           ign   == IgnoredCalls(fs, cur)
           kept  == SelectSeqOf(CandidateDirs(cur), {calls[i] : i \in (1..nd) \ ign})
           fls   == CandidateFiles(fs, cur)
           out   == {calls[i] : i \in ((nd + 1)..Len(calls)) \cap ign}
                        \cup {f \in {fls[i] : i \in 1..Len(fls)} : is_binary_path(fs, f)}
       IN  /\ stack' = kept \o Tail(stack)
           /\ excluded' = excluded \o SelectSeqOf(fls, out)
           /\ included' = included \o SelectSeqOf(fls, {fls[i] : i \in 1..Len(fls)} \ out)
           /\ ignored' = ignored \cup {calls[i] : i \in ign}
           /\ cache' = IF has_ignore THEN CacheAfter(cache, calls) ELSE cache
           /\ pc' = IF kept \o Tail(stack) = <<>> THEN "done" ELSE "walk"
    /\ UNCHANGED <<fs, target_dir, cwd, g_param, has_ignore, all_files, anchor, spec,
                   last_path, last_ret, ignore_files>>

\* ------------------------------------------------------------------ normalization runs

\* raw pattern lines are at most this long
MaxLineLen == 5

\* the characters _normalize_git_line tells apart, and one it does not
LineAlphabet == {"!", ".", "/", "*", "a"}

RawLines == UNION {[1..n -> LineAlphabet] : n \in 1..MaxLineLen}

\* the file whose single line the build normalizes
NORMALIZED_FILE == D_SRC \o <<GITIGNORE>>

\* builds over one ignore file in the target directory holding any one raw line
InitNormalize ==
    /\ Unbuilt
    /\ \E line \in RawLines :
          fs = [p \in AllSlots |-> IF p = NORMALIZED_FILE THEN TextFile(<<line>>) ELSE NoFile]
    /\ target_dir = D_SRC
    /\ cwd = D_PROJ
    /\ g_param = None

\* ------------------------------------------------------------------ walks over ignored directories

L_SRC_DIR == SRC \o <<"/">>

\* ignore files of the target directory
WalkSlots == SlotsIn({D_PROJ})

\* contents naming a directory of the tree, with and without a negation after it
WalkContents ==
    { TextFile(<<SRC, L_NOT_KEEP>>),
      TextFile(<<L_LOG, L_NOT_KEEP>>),
      TextFile(<<L_SRC_DIR>>),
      TextFile(<<FOO>>) }

\* walks of /proj with the matcher built from the ignore files of /proj
InitWalk ==
    /\ Unbuilt
    /\ fs \in Filesystems(WalkSlots, WalkContents)
    /\ target_dir = D_PROJ
    /\ cwd \in {ROOT, D_PROJ}
    /\ g_param = None

Next ==
    \/ Build
    \/ \E path \in QueryPaths : Matches(path)
    \/ StartWalk
    \/ WalkDir

Spec == Init /\ [][Next]_vars

\* run_ingest over a tree whose directories the ignore files name
SpecWalk == InitWalk /\ [][Next]_vars

\* build_composite_ignore alone, over every raw line
SpecNormalize == InitNormalize /\ [][Build]_vars

\* ------------------------------------------------------------------ properties

SeqSet(q) == {q[i] : i \in 1..Len(q)}

Built == pc # "start" /\ has_ignore

\* matches(path) as the matcher of the current state answers it
Ignored(path) == matches_ret(cache, path)

\* the compiled lines of the k-th discovered file, from its content
LinesOfFile(k) ==
    LET f    == all_files[k]
        kept == IF fs[f].readable THEN KeepLines(fs[f].lines) ELSE <<>>
    IN  [i \in 1..Len(kept) |->
            _rebase_pattern_to_anchor(_normalize_git_line(kept[i]), Parent(f), anchor)]

\* position of a discovered file in the hierarchy: deeper directories later,
\* and inside one directory .gitignore before .fiignore
OrderKey(f) == 2 * Len(Parent(f)) + (IF Last(f) = FIIGNORE THEN 1 ELSE 0)

\* C1: the compiled pattern list is the concatenation of the discovered files'
\* patterns, the files taken outermost directory first and .gitignore before
\* .fiignore inside one directory, each file's lines in file order.
C1_PatternOrder ==
    Built =>
        /\ \A i, j \in 1..Len(all_files) : i < j => OrderKey(all_files[i]) < OrderKey(all_files[j])
        /\ spec = Flatten([k \in 1..Len(all_files) |-> LinesOfFile(k)])

C1_Witness ==
    /\ Built
    /\ Len(all_files) = 2
    /\ Parent(all_files[1]) # Parent(all_files[2])
    /\ Len(LinesOfFile(1)) = 2
    /\ Len(LinesOfFile(2)) = 1
    /\ spec[3] = LinesOfFile(2)[1]

P_APP_LOG == D_SRC \o <<APP_LOG>>

P_KEEP_LOG == D_SRC \o <<KEEP_LOG>>

P_OTHER_LOG == D_PROJ \o <<OTHER_LOG>>

\* exactly two ignore files exist, /proj/.gitignore and /proj/src/.gitignore,
\* with the lines outer and inner
TwoFiles(outer, inner) ==
    /\ Present(fs) = {D_PROJ \o <<GITIGNORE>>, D_SRC \o <<GITIGNORE>>}
    /\ fs[D_PROJ \o <<GITIGNORE>>] = TextFile(outer)
    /\ fs[D_SRC \o <<GITIGNORE>>] = TextFile(inner)
    /\ cwd = D_PROJ
    /\ target_dir = D_SRC
    /\ g_param = None

\* the paths the properties are evaluated on
ProbePaths ==
    QueryPaths \cup {D_SRC \o <<APP_LOG>>,
                     D_SRC \o <<<<"x">>, FOO>>,
                     D_BUILD,
                     D_BUILD \o <<<<"a">>>>,
                     D_SRC \o <<<<"x">>, <<"y">>, FOO>>,
                     D_SRC \o <<<<"x">>, KEEP_LOG>>,
                     D_BUILD \o <<<<"a">>, <<"b">>>>,
                     D_OTHER \o <<KEEP_LOG>>}

\* C2: with two discovered files of one pattern each, the shallower first: when
\* the shallower pattern excludes a path and the deeper one is a negation that
\* matches it, matches(path) is false; with the roles swapped it is true.  With
\* /proj/.gitignore "*.log" and /proj/src/.gitignore "!keep.log", cwd /proj and
\* target /proj/src: app.log ignored, keep.log not ignored, /proj/other.log ignored.
C2_NegationPrecedence ==
    /\ (Built /\ Len(all_files) = 2 /\ Len(LinesOfFile(1)) = 1 /\ Len(LinesOfFile(2)) = 1
        /\ Len(Parent(all_files[1])) < Len(Parent(all_files[2])))
       => \A p \in ProbePaths :
            LET rel   == RelPosix(p, anchor)
                outer == LinesOfFile(1)[1]
                inner == LinesOfFile(2)[1]
            IN  (IsRelativeTo(p, anchor) /\ PatternMatches(outer, rel) /\ PatternMatches(inner, rel))
                => /\ (~StartsWith(outer, <<"!">>) /\ StartsWith(inner, <<"!">>)) => ~Ignored(p)
                   /\ (StartsWith(outer, <<"!">>) /\ ~StartsWith(inner, <<"!">>)) => Ignored(p)
    /\ (Built /\ TwoFiles(<<L_LOG>>, <<L_NOT_KEEP>>))
       => (Ignored(P_APP_LOG) /\ ~Ignored(P_KEEP_LOG) /\ Ignored(P_OTHER_LOG))
    /\ (Built /\ TwoFiles(<<L_NOT_KEEP>>, <<L_LOG>>))
       => Ignored(P_KEEP_LOG)

C2_Witness ==
    /\ Built
    /\ TwoFiles(<<L_LOG>>, <<L_NOT_KEEP>>)
    /\ last_path = <<P_KEEP_LOG>>
    /\ last_ret = FALSE
    /\ RelPosix(P_KEEP_LOG, anchor) \in DOMAIN cache

\* the lines _read_lines keeps of the k-th discovered file
KeptOfFile(k) ==
    IF fs[all_files[k]].readable THEN KeepLines(fs[all_files[k]].lines) ELSE <<>>

IsBareMask(line) == ~HasChar(line, "/") /\ ~StartsWith(line, <<"!">>)

StrictlyBelow(dir, p) == IsPrefix(dir, p) /\ p # dir

P_FOO_ROOT == D_PROJ \o <<FOO>>

P_FOO_SUB == D_SRC \o <<FOO>>

P_FOO_DEEP == D_SRC \o <<<<"x">>, FOO>>

P_FOO_DEEPER == D_SRC \o <<<<"x">>, <<"y">>, FOO>>

\* C3: the compiled form of a bare mask (no "/") from an ignore file in
\* directory B matches every path below B whose name the mask matches, at any
\* depth, and no path that is not below B; with root/sub/.gitignore holding
\* "foo" and anchor root, root/sub/foo is ignored and root/foo is not.
C3_BareMaskScope ==
    /\ Built =>
        \A k \in 1..Len(all_files) : \A i \in 1..Len(KeptOfFile(k)) :
            IsBareMask(KeptOfFile(k)[i]) =>
                \A p \in ProbePaths :
                    LET B == Parent(all_files[k])
                        compiled == LinesOfFile(k)[i]
                        hit == IsRelativeTo(p, anchor) /\ PatternMatches(compiled, RelPosix(p, anchor))
                    IN  /\ hit => StrictlyBelow(B, p)
                        /\ (StrictlyBelow(B, p) /\ GlobMatch(KeptOfFile(k)[i], Last(p))) => hit
    /\ (Built /\ anchor = D_PROJ /\ Len(spec) = 1
        /\ fs[D_SRC \o <<GITIGNORE>>] = TextFile(<<FOO>>)
        /\ D_SRC \o <<GITIGNORE>> \in SeqSet(all_files))
       => /\ Ignored(P_FOO_SUB)
          /\ Ignored(P_FOO_DEEP)
          /\ Ignored(P_FOO_DEEPER)
          /\ ~Ignored(P_FOO_ROOT)

C3_Witness ==
    /\ Built
    /\ anchor = D_PROJ
    /\ Len(spec) = 1
    /\ fs[D_SRC \o <<GITIGNORE>>] = TextFile(<<FOO>>)
    /\ D_SRC \o <<GITIGNORE>> \in SeqSet(all_files)
    /\ last_path = <<P_FOO_ROOT>>
    /\ last_ret = FALSE
    /\ Ignored(P_FOO_DEEP)

IsDirLine(line) == EndsWith(line, <<"/">>) /\ ~StartsWith(line, <<"!">>)

\* the directory a directory line of a file in B names
NamedDir(B, line) ==
    B \o SelectSeq(Split(PatternBody(_normalize_git_line(line)), "/"), LAMBDA x : x # STARSTAR)

\* C4: when the only compiled pattern comes from a line ending in "/" in an
\* ignore file in directory B, matches() is true for the directory the line names
\* and for every path beneath it.
C4_DirectoryPattern ==
    (Built /\ Len(spec) = 1) =>
        \A k \in 1..Len(all_files) : \A i \in 1..Len(KeptOfFile(k)) :
            IsDirLine(KeptOfFile(k)[i]) =>
                LET dir == NamedDir(Parent(all_files[k]), KeptOfFile(k)[i])
                IN  /\ Ignored(dir)
                    /\ Ignored(dir \o <<<<"a">>>>)
                    /\ Ignored(dir \o <<<<"a">>, <<"b">>>>)

\* what the code does for such a line: the paths beneath the directory are
\* ignored, the directory itself is not
C4_BeneathOnly ==
    (Built /\ Len(spec) = 1) =>
        \A k \in 1..Len(all_files) : \A i \in 1..Len(KeptOfFile(k)) :
            IsDirLine(KeptOfFile(k)[i]) =>
                LET dir == NamedDir(Parent(all_files[k]), KeptOfFile(k)[i])
                IN  /\ ~Ignored(dir)
                    /\ Ignored(dir \o <<<<"a">>>>)
                    /\ Ignored(dir \o <<<<"a">>, <<"b">>>>)

\* the ignore files the build consulted: all_files of the matcher, none without one
Discovered == IF has_ignore THEN all_files ELSE <<>>

\* files lists exactly the members of expected, once each, outer directories first
ListsTopDown(files, expected) ==
    /\ SeqSet(files) = expected
    /\ Len(files) = Cardinality(expected)
    /\ \A i, j \in 1..Len(files) : i < j => Len(Parent(files[i])) <= Len(Parent(files[j]))

\* the ignore files present in dir and in its ancestors up to the root
InAncestors(dir) == {p \in Present(fs) : IsPrefix(Parent(p), dir)}

\* the ignore files present in the directories from top down to bottom
OnChain(top, bottom) ==
    {p \in Present(fs) : IsPrefix(top, Parent(p)) /\ IsPrefix(Parent(p), bottom)}

\* the directory an override string names
OverrideDir(g) ==
    CASE g = G_SRC   -> D_SRC
      [] g = G_OTHER -> D_OTHER
      [] OTHER       -> cwd \o <<g>>

\* C5 as stated: for every override that is a non-empty string other than
\* "false", the discovered files are those of the override directory and its
\* ancestors, root-most first.
C5_OverrideAnyOtherString ==
    (pc # "start" /\ g_param # None /\ g_param[1] # <<>> /\ g_param[1] # G_FALSE)
        => ListsTopDown(Discovered, InAncestors(OverrideDir(g_param[1])))

\* C5, amended: for every override that is a non-empty string and is not "false"
\* once surrounding blanks are removed and letters lower-cased, the discovered
\* files are those of the override directory and its ancestors, root-most
\* first, whatever the target and the working directory are.
C5_OverrideDiscovery ==
    (pc # "start" /\ g_param # None /\ g_param[1] # <<>>
     /\ g_param[1] \notin {G_FALSE, G_FALSE_UPPER, G_FALSE_PADDED})
        => ListsTopDown(Discovered, InAncestors(OverrideDir(g_param[1])))

C5_Witness ==
    /\ Built
    /\ g_param = Some(G_SRC)
    /\ target_dir = D_OTHER
    /\ cwd = D_PROJ
    /\ all_files = <<ROOT \o <<FIIGNORE>>, D_SRC \o <<GITIGNORE>>>>

NoOverride == g_param = None \/ g_param = Some(<<>>)

\* C6: without an override, a target at or below the working directory yields
\* the ignore files of the directories from the working directory down to the
\* target, in descending order and none from above the working directory; any
\* other target yields those of the target and its ancestors, root-most first.
C6_DefaultDiscovery ==
    (pc # "start" /\ NoOverride) =>
        IF IsPrefix(cwd, target_dir)
        THEN ListsTopDown(Discovered, OnChain(cwd, target_dir))
        ELSE ListsTopDown(Discovered, InAncestors(target_dir))

C6_Witness ==
    /\ Built
    /\ g_param = None
    /\ cwd = D_PROJ
    /\ target_dir = D_SRC
    /\ ROOT \o <<FIIGNORE>> \in Present(fs)
    /\ all_files = <<D_SRC \o <<GITIGNORE>>>>

\* C7: when the override is "false" in any letter case the build returns no
\* matcher whatever ignore files exist, the walk reports no path as ignored and
\* the diagnostic list stays empty.
C7_DisabledIgnoresNothing ==
    (g_param \in {Some(G_FALSE), Some(G_FALSE_UPPER)}) =>
        /\ ~has_ignore
        /\ ignored = {}
        /\ ignore_files = <<>>
        /\ (pc = "done" /\ target_dir = D_SRC) => P_FOO_SUB \in SeqSet(included)

C7_Witness ==
    /\ pc = "done"
    /\ g_param = Some(G_FALSE_UPPER)
    /\ cwd = D_PROJ
    /\ target_dir = D_SRC
    /\ fs[D_SRC \o <<GITIGNORE>>] = TextFile(<<FOO>>)
    /\ P_FOO_SUB \in SeqSet(included)
    /\ excluded = <<>>

\* C8: for every built matcher and every path outside the anchor's subtree,
\* matches(path) returns false and leaves the cache as it was.
C8_OutsideAnchor ==
    Built =>
        /\ \A p \in ProbePaths :
              ~IsPrefix(anchor, p) => (matches_ret(cache, p) = FALSE /\ matches_cache(cache, p) = cache)
        /\ (last_path # <<>> /\ ~IsPrefix(anchor, last_path[1])) => last_ret = FALSE

C8_Witness ==
    /\ Built
    /\ anchor = D_PROJ
    /\ last_path = <<D_OTHER \o <<FOO>>>>
    /\ last_ret = FALSE
    /\ DOMAIN cache = {Join(<<SRC, FOO>>, <<"/">>)}
    /\ match_file(spec, FOO)

\* every cache entry is the pattern set's value for its key, and matches()
\* answers every path in the anchor's subtree with that value
CacheSound ==
    Built =>
        /\ \A key \in DOMAIN cache : cache[key] = match_file(spec, key)
        /\ \A p \in ProbePaths :
              IsPrefix(anchor, p) => Ignored(p) = match_file(spec, RelPosix(p, anchor))
        /\ last_path # <<>> => last_ret = Ignored(last_path[1])

\* a step keeps every cache entry as it is
CacheStable == \A key \in DOMAIN cache : key \in DOMAIN cache' /\ cache'[key] = cache[key]

\* C9: after any sequence of matches() calls every cache entry equals the value
\* the compiled patterns yield for its path, a query returns that value whether
\* it hits the cache or not (a cached false included), and an entry once
\* written is never changed.
C9_CacheConsistent == []CacheSound /\ [][CacheStable]_vars

C9_Witness ==
    /\ Built
    /\ last_path = <<P_FOO_ROOT>>
    /\ last_ret = FALSE
    /\ RelPosix(P_FOO_ROOT, anchor) \in DOMAIN cache
    /\ cache[RelPosix(P_FOO_ROOT, anchor)] = FALSE
    /\ spec # <<>>

\* C10: a discovered ignore file that cannot be read contributes no pattern and
\* does not stop the build: a matcher is returned, the file stays in the list
\* of discovered files, and the lines of the other files are compiled in
\* discovery order.
C10_UnreadableSkipped ==
    (pc # "start" /\ g_param = None /\ cwd = D_PROJ /\ target_dir = D_SRC
     /\ OnChain(cwd, target_dir) # {})
        => /\ has_ignore
           /\ SeqSet(all_files) = OnChain(cwd, target_dir)
           /\ spec = Flatten([k \in 1..Len(all_files) |->
                                 IF fs[all_files[k]].readable THEN LinesOfFile(k) ELSE <<>>])

C10_Witness ==
    /\ Built
    /\ Len(all_files) = 2
    /\ ~fs[all_files[1]].readable
    /\ fs[all_files[2]] = TextFile(<<L_LOG>>)
    /\ spec = <<SRC \o <<"/", "*", "*", "/">> \o L_LOG>>

\* the ignore files on the discovery path of the mode the inputs select
OnDiscoveryPath ==
    IF g_param # None /\ g_param[1] # <<>>
    THEN InAncestors(OverrideDir(g_param[1]))
    ELSE IF IsPrefix(cwd, target_dir)
         THEN OnChain(cwd, target_dir)
         ELSE InAncestors(target_dir)

\* C11: when no ignore file exists on the discovery path of the selected mode
\* (whatever exists elsewhere), the build returns no matcher, the walk reports
\* no path as ignored and the diagnostic list is empty.
C11_NothingDiscovered ==
    (pc # "start" /\ g_param \notin {Some(G_FALSE), Some(G_FALSE_UPPER), Some(G_FALSE_PADDED)}
     /\ OnDiscoveryPath = {})
        => /\ ~has_ignore
           /\ ignored = {}
           /\ ignore_files = <<>>
           /\ pc = "done" => excluded = <<>>

C11_Witness ==
    /\ pc = "done"
    /\ g_param = None
    /\ cwd = D_PROJ
    /\ target_dir = D_SRC
    /\ Present(fs) = {ROOT \o <<FIIGNORE>>}
    /\ ~has_ignore
    /\ ignore_files = <<>>
    /\ P_FOO_SUB \in SeqSet(included)

\* the line of the normalization runs and what the build compiled it to
RawLine == fs[NORMALIZED_FILE].lines[1]

Compiled == spec[1]

Negated(line) == line # <<>> /\ line[1] = "!"

\* the number of "/" a string starts with
LeadingSlashes(str) ==
    CHOOSE k \in 0..Len(str) :
        /\ \A j \in 1..k : str[j] = "/"
        /\ k < Len(str) => str[k + 1] # "/"

\* the pipeline of C12, step by step
Unmarked(line) == IF Negated(line) THEN Tail(line) ELSE line

Undotted(line) ==
    LET a == Unmarked(line)
    IN  IF Len(a) >= 2 /\ a[1] = "." /\ a[2] = "/" THEN SubSeq(a, 3, Len(a)) ELSE a

Unrooted(line) ==
    LET b == Undotted(line)
    IN  SubSeq(b, LeadingSlashes(b) + 1, Len(b))

DirExpanded(line) ==
    LET c == Unrooted(line)
    IN  IF c # <<>> /\ c[Len(c)] = "/" THEN c \o <<"*", "*">> ELSE c

MadeRecursive(line) ==
    LET d == DirExpanded(line)
    IN  IF \A i \in 1..Len(d) : d[i] # "/" THEN <<"*", "*", "/">> \o d ELSE d

Pipeline(line) == IF Negated(line) THEN <<"!">> \o MadeRecursive(line) ELSE MadeRecursive(line)

HasSlash(str) == \E i \in 1..Len(str) : str[i] = "/"

\* C12 as stated: the compiled line is the pipeline's result, it starts with "!"
\* exactly when the raw line did, and its body (what follows a leading "!")
\* contains "/" and does not start with "/".
C12_NormalizeExactNegation ==
    (pc = "built" /\ has_ignore) =>
        /\ Compiled = Pipeline(RawLine)
        /\ Negated(Compiled) <=> Negated(RawLine)
        /\ HasSlash(Unmarked(Compiled))
        /\ Unmarked(Compiled)[1] # "/"

\* C12, amended: the compiled line is the pipeline's result, it starts with "!"
\* whenever the raw line did, and its body (what follows the re-attached "!",
\* the whole line when none was re-attached) contains "/" and does not start
\* with "/".
C12_NormalizePipeline ==
    (pc = "built" /\ has_ignore) =>
        LET body == IF Negated(RawLine) THEN Tail(Compiled) ELSE Compiled
        IN  /\ Compiled = Pipeline(RawLine)
            /\ Negated(RawLine) => Negated(Compiled)
            /\ HasSlash(body)
            /\ body[1] # "/"

C12_Witness ==
    /\ pc = "built"
    /\ has_ignore
    /\ RawLine = <<"!", ".", "/", "a", "/">>
    /\ Compiled = <<"!", "a", "/", "*", "*">>

\* the directory of the k-th discovered ignore file
DirOf(k) == Parent(all_files[k])

Files == 1..Len(all_files)

\* dir is an ancestor of (or equal to) the directory of every discovered file
AboveAll(dir) == \A k \in Files : IsPrefix(dir, DirOf(k))

\* what C13 has the patterns of the k-th file prefixed with
AnchorPrefix(k) ==
    IF DirOf(k) = anchor THEN <<>>
    ELSE Join(RelParts(DirOf(k), anchor), <<"/">>) \o <<"/">>

AfterMarker(pattern, prefix) ==
    IF Negated(pattern) THEN <<"!">> \o prefix \o Tail(pattern) ELSE prefix \o pattern

ExpectedLinesOf(k) ==
    [i \in 1..Len(KeptOfFile(k)) |->
        AfterMarker(_normalize_git_line(KeptOfFile(k)[i]), AnchorPrefix(k))]

\* C13: the anchor is the deepest directory at or above the directory of every
\* discovered ignore file, and the compiled patterns are, file after file, the
\* normalized lines with the anchor-to-directory path and "/" put after any "!"
\* (nothing put when the file's directory is the anchor).
C13_DeepestCommonAnchor ==
    Built =>
        /\ AboveAll(anchor)
        /\ \A n \in 1..Len(DirOf(1)) :
              AboveAll(SubSeq(DirOf(1), 1, n)) => n <= Len(anchor)
        /\ spec = Flatten([k \in Files |-> ExpectedLinesOf(k)])

C13_Witness ==
    /\ Built
    /\ anchor = D_PROJ
    /\ Len(all_files) = 2
    /\ DirOf(2) = D_SRC
    /\ spec = << <<"*", "*", "/", "*", ".", "l", "o", "g">>,
                 <<"!">> \o SRC \o <<"/", "*", "*", "/">> \o KEEP_LOG >>

\* C14: the directories of the discovered ignore files lie on one ancestor
\* chain, the anchor is the directory of the first discovered file, every
\* file's directory is at or below the anchor, and so rebasing never meets a
\* base that is not under the anchor.
C14_SingleChain ==
    Built =>
        /\ \A j, k \in Files : IsPrefix(DirOf(j), DirOf(k)) \/ IsPrefix(DirOf(k), DirOf(j))
        /\ anchor = DirOf(1)
        /\ \A k \in Files : Len(anchor) <= Len(DirOf(k))
        /\ \A k \in Files : IsRelativeTo(DirOf(k), anchor)

C14_Witness ==
    /\ Built
    /\ g_param # None
    /\ all_files = <<ROOT \o <<FIIGNORE>>, D_SRC \o <<GITIGNORE>>>>
    /\ anchor = ROOT

NoDuplicates(q) == \A i, j \in 1..Len(q) : q[i] = q[j] => i = j

\* the directories strictly between the walk's root and the file f
DirsAbove(f) == {SubSeq(f, 1, n) : n \in (Len(target_dir) + 1)..(Len(f) - 1)}

\* the directories the walk descends into: the root, and below it every
\* directory that is neither pruned by default nor ignored, under a visited one
RECURSIVE Visited(_)
Visited(dir) ==
    \/ dir = target_dir
    \/ /\ Len(dir) > Len(target_dir)
       /\ Visited(Parent(dir))
       /\ Last(dir) \in SeqSet(TreeDirs(Parent(dir))) \ DEFAULT_PRUNE_DIRS
       /\ ~Ignored(dir)

TreeDirectories == {ROOT, D_PROJ, D_SRC, D_BUILD, D_OTHER}

VisitedFiles ==
    UNION {SeqSet(CandidateFiles(fs, dir)) : dir \in {t \in TreeDirectories : Visited(t)}}

\* C15: in a walk with a matcher, no included file is one matches() answers
\* true for or answered true for, none lies beneath a directory below the root
\* that matches() answers true for or answered true for, no file is listed
\* twice or in both lists, and once the walk is over the two lists together
\* hold exactly the files of the visited directories.
C15_WalkSafety ==
    has_ignore =>
        /\ \A f \in SeqSet(included) :
              /\ ~Ignored(f)
              /\ f \notin ignored
              /\ \A dir \in DirsAbove(f) : ~Ignored(dir) /\ dir \notin ignored
        /\ NoDuplicates(included \o excluded)
        /\ pc = "done" => SeqSet(included) \cup SeqSet(excluded) = VisitedFiles

\* /proj/.gitignore holds "src" and "!keep.log": src is pruned, and keep.log
\* inside it, which matches() does not ignore, is in neither list
C15_Witness ==
    /\ pc = "done"
    /\ has_ignore
    /\ D_SRC \in ignored
    /\ ~Ignored(P_KEEP_LOG)
    /\ P_KEEP_LOG \notin SeqSet(included \o excluded)
    /\ P_FOO_ROOT \in SeqSet(included)
    /\ P_OTHER_LOG \in SeqSet(included)

====
